---- MODULE Spec2Model ----
(***************************************************************************)
(* A model of flow-bot: the builder and FlowBot::run (src/src/lib.rs), the *)
(* RPC correlation in Context (src/src/base/context.rs) and the handler    *)
(* pipeline (src/src/base/handler.rs, src/src/base/extract.rs).            *)
(***************************************************************************)
EXTENDS Integers, Sequences, FiniteSets, Bags, TLC

\* ---------------------------------------------------------------- bounds
MaxCalls  == 2      \* calls of Context::send_obj in one run
MaxReplies == 2     \* reply frames the read loop takes in
MaxEvents == 2      \* event frames the read loop takes in
MaxRegs   == 2      \* registrations added to the builder
MaxStates == 3      \* calls of with_state
MaxCands  == 2      \* candidates of a match_one! enum
MaxMethods == 2     \* methods of a #[flow_service] impl block
MaxGets   == 3      \* calls of TursoDispatcher::get_database

Calls  == 1..MaxCalls
Tokens == 1..MaxCalls          \* echo strings uuid::Uuid::new_v4 can yield
UnknownTok == 0                \* an echo string no call ever generated
NoTok  == -1
NoCall == 0
NoText == <<>>

\* The body of a reply frame: whether it decodes as ApiResponse<R>.
Bodies == {"good", "bad"}
\* A reply text: <<echo, body>>.
Texts  == (Tokens \cup {UnknownTok}) \X Bodies

\* ReconnectionStrategy, without its delays.
Strategies ==
    {[kind |-> "Infinite", max_attempts |-> 0], [kind |-> "None", max_attempts |-> 0]}
    \cup {[kind |-> "Limited", max_attempts |-> n] : n \in 0..1}
\* impl Default for ReconnectionStrategy.
DefaultStrategy == [kind |-> "Infinite", max_attempts |-> 0]

\* The types S of the values given to with_state; a value is named by the
\* rank of the with_state call that gave it.
StateTypes == {"S", "T"}
NoState == 0

\* The N of the MatchGroupId<N> the handlers declare.
MatchId == 1

\* TypedEvent, narrowed to what the extractors look at.
EventKinds == {"private", "group", "notice"}
\* FromEvent implementors used as handler arguments.
Extractors == {"BotEvent", "Message", "GroupId", "State", "MatchGroupId"}
Controls   == {"Skip", "Continue", "Block"}

VARIABLES
    reconnection, \* ReverseConnectionConfig.reconnection
    turso,        \* TursoDispatcher.databases, and the history of the get_database calls
    states,       \* FlowBotBuilder.states / Context.state: type -> value
    stateLog,     \* history: the types of the with_state calls, in order
    extracted,    \* the latest from_event call of a combinator and its result
    handlers,     \* FlowBotBuilder.handlers / FlowBot.handlers
    botPc,        \* where the builder / FlowBot::run stands
    runResult,    \* what FlowBot::run returned
    sink,         \* Context.sink: "none" or "attached"
    sinkLock,     \* holder of the tokio Mutex around the sink
    pending,      \* Context.pending_requests: token -> owner of the Sender
    callPc,       \* position of each send_obj call
    callTok,      \* the echo each call generated
    sig,          \* value stored in each call's oneshot channel
    callResult,   \* what each call returned
    wire,         \* tokens of the call frames written to the socket
    nreplies,     \* reply frames taken in by the read loop
    echoTasks,    \* tasks spawned by on_recv_echo, not yet run
    tasks,        \* dispatch tasks spawned by handle_event
    spawnedLate,  \* history: a dispatch task was spawned while a handler was running
    initLog,      \* services whose init ran, in order
    consumed,     \* history: who took each call's entry out of the table
    sent,         \* history: per call, entries registered and frames written
    caller        \* per call, the dispatch task awaiting it inside an extractor, if any

vars == <<reconnection, turso, states, stateLog, extracted, handlers, botPc, runResult, sink, sinkLock, pending, callPc, callTok,
          sig, callResult, wire, nreplies, echoTasks, tasks, spawnedLate, initLog,
          consumed, sent, caller>>

cfgVars  == <<reconnection, turso, states, stateLog, extracted>>
botVars  == <<handlers, cfgVars, botPc, runResult>>
callVars == <<callPc, callTok, sig, callResult>>
loopVars == <<nreplies, echoTasks, tasks, spawnedLate, initLog, consumed, sent, caller>>

\* ------------------------------------------------------ TursoDispatcher
\* A string is the sequence of its pieces, so that format! is concatenation.
\* The keys: two plain names, and a key spelt like the file of another.
NoDb == 0
DatabaseDirectory == <<"./turso_databases">>

\* turso.rs 39: format!("{}/{}.db", self.database_directory, key)
Url(key) == DatabaseDirectory \o <<"/">> \o key \o <<".db">>

Keys == {<<"a">>, <<"b">>, Url(<<"a">>)}
Names == Keys \cup {Url(k) : k \in Keys}

\* -------------------------------------------------------------- StateMap
\* Faulty variant of StateInsert: a value of a type already present is kept.
StateInsertKeepFirst(ty, v) ==
    IF states[ty] = NoState THEN [states EXCEPT ![ty] = v] ELSE states

\* StateMap::insert: HashMap::insert under TypeId::of::<T>() replaces the
\* value of that type.
StateInsert(ty, v) == [states EXCEPT ![ty] = v]

\* Faulty variant of StateGet: the lookup does not tell the types apart and
\* yields the latest value of any type.
StateGetAnyType(ty) ==
    IF \A u \in StateTypes : states[u] = NoState THEN NoState
    ELSE CHOOSE v \in {states[u] : u \in StateTypes} :
            \A u \in StateTypes : states[u] <= v

\* StateMap::get: the value stored under TypeId::of::<T>(), if any.
StateGet(ty) == states[ty]

\* ------------------------------------------------------------ extractors
\* Option<T>: None is the empty tuple, Some(v) the tuple of v.
None == <<>>
Some(v) == <<v>>

\* The events, by name, and what the extractors look at in them:
\* TypedEvent::Message or not, TypedMessageInfo::Group or Private, the
\* group_id, and the id of the first Segment::Reply of the message.
AllEvents == EventKinds \cup {"group_other", "reply", "reply_nan", "group_reply"}
IsMessage(ev) == ev /= "notice"
IsGroup(ev) == ev \in {"group", "group_other", "group_reply"}
GroupIdOf(ev) == IF ev = "group_other" THEN 2 ELSE 1
ReplySegment(ev) ==
    CASE ev \in {"reply", "group_reply"} -> "number"
      [] ev = "reply_nan" -> "not_a_number"
      [] OTHER -> "none"

\* event/mod.rs 48-53
ExtractBotEvent(ev) == Some([event |-> ev])

\* extract.rs 24-39, for State<S>
ExtractState(ev) ==
    IF StateGet("S") = NoState THEN None ELSE Some([state |-> StateGet("S")])

\* extract.rs 41-56
ExtractMessage(ev) == IF IsMessage(ev) THEN Some([message |-> ev]) ELSE None

\* extract.rs 144-161
ExtractGroupId(ev) ==
    IF IsMessage(ev) /\ IsGroup(ev) THEN Some([group_id |-> GroupIdOf(ev)]) ELSE None

\* Faulty variant of ExtractMatchGroupId: the group id is not compared.
ExtractMatchGroupIdAny(ev) ==
    IF ExtractGroupId(ev) = None THEN None ELSE Some([matched |-> MatchId])

\* extract.rs 188-197, for MatchGroupId<MatchId>
ExtractMatchGroupId(ev) ==
    IF ExtractGroupId(ev) = None THEN None
    ELSE IF ExtractGroupId(ev)[1].group_id = MatchId
           THEN Some([matched |-> MatchId]) ELSE None

\* Faulty variant of ExtractReply: the failure of get_message is ignored.
ExtractReplyIgnoresFailure(ev, res) ==
    IF IsMessage(ev) /\ ReplySegment(ev) = "number"
      THEN Some([reply |-> res]) ELSE None

\* extract.rs 206-227, for Reply; res is what get_message returned, for an
\* event that makes from_event call it ("Unissued" when it does not).
ExtractReply(ev, res) ==
    IF ~IsMessage(ev) THEN None
    ELSE CASE ReplySegment(ev) = "none" -> None
           [] ReplySegment(ev) = "not_a_number" -> None
           [] ReplySegment(ev) = "number" ->
                  IF res = "Ok" THEN Some([reply |-> res]) ELSE None

\* FromEvent::from_event of the extractor named x: what it yields.
Extract(x, ev) ==
    CASE x = "BotEvent" -> ExtractBotEvent(ev)
      [] x = "State"    -> ExtractState(ev)
      [] x = "Message"  -> ExtractMessage(ev)
      [] x = "GroupId"  -> ExtractGroupId(ev)
      [] x = "MatchGroupId" -> ExtractMatchGroupId(ev)
      [] x = "Reply"    -> ExtractReply(ev, "Unissued")

\* FromEvent::from_event for each extractor: TRUE when it yields Some.
\* "State" stands for State<S>.
FromEvent(x, ev) == Extract(x, ev) /= None

\* Faulty variant of OptionFromEvent: the failure of T is passed on.
OptionFlatten(x, ev) == IF Extract(x, ev) = None THEN None ELSE Some(Extract(x, ev))

\* extract.rs 229-240: Option<T>::from_event is Some(T::from_event(..)).
OptionFromEvent(x, ev) == Some(Extract(x, ev))

\* Faulty variant of MatchOne: the last succeeding candidate wins.
RECURSIVE MatchOneLastFrom(_, _, _)
MatchOneLastFrom(cands, i, ev) ==
    IF i < 1 THEN None
    ELSE IF Extract(cands[i], ev) /= None
           THEN Some([variant |-> i, matcher |-> Extract(cands[i], ev)[1]])
           ELSE MatchOneLastFrom(cands, i - 1, ev)
MatchOneLast(cands, ev) == MatchOneLastFrom(cands, Len(cands), ev)

\* extract.rs 257-278: the enum of match_one! tries its matchers in the
\* order of the macro's arguments and returns at the first Some.
RECURSIVE MatchOneFrom(_, _, _)
MatchOneFrom(cands, i, ev) ==
    IF i > Len(cands) THEN None
    ELSE IF Extract(cands[i], ev) /= None
           THEN Some([variant |-> i, matcher |-> Extract(cands[i], ev)[1]])
           ELSE MatchOneFrom(cands, i + 1, ev)
MatchOne(cands, ev) == MatchOneFrom(cands, 1, ev)

\* impl_handler: every extractor of the tuple is evaluated, the body runs
\* only when all yield Some.
\* Faulty variant of AllSome: only the first extractor decides.
AllSomeFirstOnly(args, ev) == Len(args) = 0 \/ FromEvent(args[1], ev)

AllSome(args, ev) == \A i \in 1..Len(args) : FromEvent(args[i], ev)

\* Faulty variant of NeedsFetch: the tuple is evaluated lazily, and an
\* extractor is not called once an earlier one has yielded None.
NeedsFetchShortCircuit(args, ev) ==
    \E i \in 1..Len(args) :
        /\ args[i] = "Reply" /\ IsMessage(ev) /\ ReplySegment(ev) = "number"
        /\ \A j \in 1..(i - 1) : Extract(args[j], ev) /= None

\* handler.rs 45 and extract.rs 214-216: every from_event of the tuple is
\* called, so from_event of Reply comes to call get_message whatever the
\* extractors before it yielded.
NeedsFetch(args, ev) ==
    \E i \in 1..Len(args) :
        args[i] = "Reply" /\ IsMessage(ev) /\ ReplySegment(ev) = "number"

\* The same match once get_message has returned res to the Reply extractor.
AllSomeWith(args, ev, res) ==
    \A i \in 1..Len(args) :
        IF args[i] = "Reply" THEN ExtractReply(ev, res) /= None
                             ELSE FromEvent(args[i], ev)

\* HandlerOrService; ord is the rank of the with_handler / with_service call
\* that added the registration.
HandlerReg(args, n) == [kind |-> "Handler", args |-> args, ord |-> n]
ServiceReg(n) == [kind |-> "Service", args |-> <<>>, ord |-> n]
ArgTuples == {<<"BotEvent", "Message", "GroupId">>}

\* -------------------------------------------------------------- builder
InitRest ==
    /\ states = [ty \in StateTypes |-> NoState]
    /\ turso = [databases |-> [n \in Names |-> NoDb], gets |-> <<>>]
    /\ extracted = [kind |-> "none", args |-> <<>>, ev |-> "notice", out |-> None]
    /\ stateLog = <<>>
    /\ handlers = <<>>
    /\ botPc = "building"
    /\ runResult = "none"
    /\ sink = "none"
    /\ sinkLock = NoCall
    /\ pending = [t \in Tokens |-> NoCall]
    /\ callPc = [c \in Calls |-> "idle"]
    /\ callTok = [c \in Calls |-> NoTok]
    /\ sig = [c \in Calls |-> NoText]
    /\ callResult = [c \in Calls |-> "none"]
    /\ wire = {}
    /\ nreplies = 0
    /\ echoTasks = EmptyBag
    /\ tasks = EmptyBag
    /\ spawnedLate = FALSE
    /\ initLog = <<>>
    /\ consumed = [c \in Calls |-> <<>>]
    /\ sent = [c \in Calls |-> [entries |-> 0, frames |-> 0]]
    /\ caller = [c \in Calls |-> None]

\* FlowBotBuilder::new with the default reconnection strategy.
Init == reconnection = DefaultStrategy /\ InitRest

\* FlowBotBuilder::new with any reconnection strategy.
RunInit == reconnection \in Strategies /\ InitRest

\* Faulty variant of Push: the registration is put in front of the list.
PushFront(reg) == <<reg>> \o handlers

\* self.handlers.push(..)
Push(reg) == Append(handlers, reg)

\* lines 173-176: with_state::<S>(state); the value is the one of this call.
WithState(ty) ==
    /\ botPc = "building"
    /\ Len(stateLog) < MaxStates
    /\ states' = StateInsert(ty, Len(stateLog) + 1)
    /\ stateLog' = Append(stateLog, ty)
    /\ UNCHANGED <<reconnection, turso, extracted, handlers, botPc, runResult, sink, sinkLock,
                   pending, callVars, wire, loopVars>>

\* A from_event call of Option<x> on event ev, in the built bot.
ProbeOption(x, ev) ==
    /\ botPc = "connect"
    /\ extracted.kind = "none"
    /\ extracted' = [kind |-> "Option", args |-> <<x>>, ev |-> ev,
                     out |-> OptionFromEvent(x, ev)]
    /\ UNCHANGED <<reconnection, turso, states, stateLog, handlers, botPc, runResult, sink,
                   sinkLock, pending, callVars, wire, loopVars>>

\* The candidate lists of the match_one! enums.
CandLists == UNION {[1..n -> Extractors] : n \in 1..MaxCands}

\* A from_event call of the match_one! enum over cands on event ev.
ProbeMatchOne(cands, ev) ==
    /\ botPc = "connect"
    /\ extracted.kind = "none"
    /\ extracted' = [kind |-> "MatchOne", args |-> cands, ev |-> ev,
                     out |-> MatchOne(cands, ev)]
    /\ UNCHANGED <<reconnection, turso, states, stateLog, handlers, botPc, runResult, sink,
                   sinkLock, pending, callVars, wire, loopVars>>

\* lines 180-192
WithHandler(args) ==
    /\ botPc = "building"
    /\ Len(handlers) < MaxRegs
    /\ handlers' = Push(HandlerReg(args, Len(handlers) + 1))
    /\ UNCHANGED <<cfgVars, botPc, runResult, sink, sinkLock, pending, callVars, wire, loopVars>>

\* lines 195-202
WithService ==
    /\ botPc = "building"
    /\ Len(handlers) < MaxRegs
    /\ handlers' = Push(ServiceReg(Len(handlers) + 1))
    /\ UNCHANGED <<cfgVars, botPc, runResult, sink, sinkLock, pending, callVars, wire, loopVars>>

\* lines 205-211
Build ==
    /\ botPc = "building"
    /\ botPc' = "connect"
    /\ UNCHANGED <<handlers, cfgVars, runResult, sink, sinkLock, pending, callVars, wire, loopVars>>

\* ------------------------------------------------- Context::send_obj
Min(S) == CHOOSE x \in S : \A y \in S : x <= y

\* Faulty variant of FreshTokens: the generator may repeat a token.
RepeatedTokens == Tokens

\* uuid::Uuid::new_v4: a token no call of this run generated before. Tokens
\* are interchangeable, so the least unused one stands for any of them.
FreshTokens == {Min(Tokens \ {callTok[c] : c \in Calls})}

\* Faulty variant of RegisterRequest: the request is not registered before the send.
RegisterRequestLate(t, c) == pending

\* DashMap::insert: the entry for t now holds c's Sender (an older Sender
\* stored under t is dropped).
RegisterRequest(t, c) == [pending EXCEPT ![t] = c]

\* Faulty variant of RemoveRequest: the entry is looked up and left in the table.
RemoveRequestKeep(t) == pending

\* DashMap::remove.
RemoveRequest(t) == [pending EXCEPT ![t] = NoCall]

\* The Receiver of call c exists from oneshot::channel() until the timeout
\* future is consumed or send_obj returns.
RxAlive(c) == callPc[c] \in {"registered", "locked", "waiting"}

\* The Sender of call c was dropped without sending.
TxDropped(c) == sig[c] = NoText /\ \A t \in Tokens : pending[t] /= c

\* serde_json::from_str(&data) as ApiResponse<R>.
Decodes(text) == text[2] = "good"

\* Faulty variant of Return: a call whose wait ran out starts over.
ReturnRetryOnTimeout(c, res) ==
    /\ callPc' = [callPc EXCEPT ![c] = IF res = "Timeout" THEN "idle" ELSE "done"]
    /\ callResult' = [callResult EXCEPT ![c] = IF res = "Timeout" THEN @ ELSE res]

\* Every way out of send_obj is a return to the caller: the `?` of lines
\* 72, 78 and 79 and the three arms of the match of lines 85-93.
Return(c, res) ==
    /\ callPc' = [callPc EXCEPT ![c] = "done"]
    /\ callResult' = [callResult EXCEPT ![c] = res]

\* lines 57-64: generate the echo, create the channel, register the request.
CallRegister(c) ==
    /\ botPc /= "building"
    /\ callPc[c] = "idle"
    /\ \E t \in FreshTokens :
          /\ callTok' = [callTok EXCEPT ![c] = t]
          /\ pending' = RegisterRequest(t, c)
    /\ callPc' = [callPc EXCEPT ![c] = "registered"]
    /\ sent' = [sent EXCEPT ![c].entries = @ + 1]
    /\ UNCHANGED <<botVars, sink, sinkLock, sig, callResult, wire,
                   nreplies, echoTasks, tasks, spawnedLate, initLog, consumed, caller>>

\* line 72: serde_json::to_string(&msg)? fails.
CallEncodeFail(c) ==
    /\ callPc[c] = "registered"
    /\ Return(c, "JsonError")
    /\ UNCHANGED <<botVars, sink, sinkLock, pending, callTok, sig, wire, loopVars>>

\* Faulty variant of LockFree: lock() hands out the guard although another
\* call holds it.
LockFreeAlways == TRUE

\* line 29, Arc<Mutex<Option<WsSink>>>: lock() resolves when no guard is out.
LockFree == sinkLock = NoCall

\* line 77: self.sink.lock().await.
CallLock(c) ==
    /\ callPc[c] = "registered"
    /\ LockFree
    /\ sinkLock' = c
    /\ callPc' = [callPc EXCEPT ![c] = "locked"]
    /\ UNCHANGED <<botVars, sink, pending, callTok, sig, callResult, wire, loopVars>>

\* line 78: sink.as_mut().ok_or(FlowError::NoConnection)?
CallNoConnection(c) ==
    /\ callPc[c] = "locked"
    /\ sink = "none"
    /\ sinkLock' = NoCall
    /\ Return(c, "NoConnection")
    /\ UNCHANGED <<botVars, sink, pending, callTok, sig, wire, loopVars>>

\* Faulty variant of GuardAfterSend: the guard is not scoped to the send and
\* is still held while the call awaits its reply.
GuardHeldAcrossWait(c) == c

\* lines 76-80: the guard lives in a block that ends right after the send.
GuardAfterSend(c) == NoCall

\* line 79: sink.send(msg).await succeeds; the guard is dropped at line 80
\* and the call suspends on the timeout at line 83.
CallSendOk(c) ==
    /\ callPc[c] = "locked"
    /\ sink = "attached"
    /\ sinkLock' = GuardAfterSend(c)
    /\ wire' = wire \cup {callTok[c]}
    /\ callPc' = [callPc EXCEPT ![c] = "waiting"]
    /\ sent' = [sent EXCEPT ![c].frames = @ + 1]
    /\ UNCHANGED <<botVars, sink, pending, callTok, sig, callResult,
                   nreplies, echoTasks, tasks, spawnedLate, initLog, consumed, caller>>

\* line 79: sink.send(msg).await? fails.
CallSendErr(c) ==
    /\ callPc[c] = "locked"
    /\ sink = "attached"
    /\ sinkLock' = NoCall
    /\ Return(c, "WebSocketError")
    /\ UNCHANGED <<botVars, sink, pending, callTok, sig, wire, loopVars>>

\* lines 83-87: the timeout future is polled and the receiver is ready.
CallWake(c) ==
    /\ callPc[c] = "waiting"
    /\ sig[c] /= NoText \/ TxDropped(c)
    /\ Return(c, IF sig[c] = NoText THEN "NoResponse"
                  ELSE IF Decodes(sig[c]) THEN "Ok" ELSE "JsonError")
    /\ UNCHANGED <<botVars, sink, sinkLock, pending, callTok, sig, wire, loopVars>>

\* Faulty variant of TimerRuns: the 30 seconds are counted by the read
\* loop, so they never pass once the loop has stopped.
TimerNeedsLoop == botPc = "loop"

\* line 83: tokio::time::timeout is driven by the runtime's timer, whatever
\* the read loop does.
TimerRuns == TRUE

\* line 83: the timeout future is polled, the receiver is not ready and the
\* 30 seconds have passed; the receiver is dropped with the future.
CallElapsed(c) ==
    /\ callPc[c] = "waiting"
    /\ TimerRuns
    /\ sig[c] = NoText
    /\ ~TxDropped(c)
    /\ callPc' = [callPc EXCEPT ![c] = "elapsed"]
    /\ UNCHANGED <<botVars, sink, sinkLock, pending, callTok, sig, callResult, wire, loopVars>>

\* lines 88-92: remove the pending request and return Timeout.
CallCleanup(c) ==
    /\ callPc[c] = "elapsed"
    /\ pending' = RemoveRequest(callTok[c])
    /\ consumed' = IF pending[callTok[c]] = c
                      THEN [consumed EXCEPT ![c] = Append(@, "timeout")]
                      ELSE consumed
    /\ Return(c, "Timeout")
    /\ UNCHANGED <<botVars, sink, sinkLock, callTok, sig, wire,
                   nreplies, echoTasks, tasks, spawnedLate, initLog, sent, caller>>

\* --------------------------------------------- Context::on_recv_echo
\* lines 96-98: clone the table and spawn the task.
OnRecvEcho(text) ==
    echoTasks' = echoTasks (+) SetToBag({[echo |-> text[1], data |-> text]})

\* Faulty variant of EchoTarget: the task fires the first Sender of the table,
\* whatever its token.
EchoTargetFirst(echo) ==
    LET S == {t \in Tokens : pending[t] /= NoCall}
    IN IF S = {} THEN NoCall ELSE pending[Min(S)]

\* Which entry the spawned task takes out of the table.
EchoTarget(echo) == IF echo \in Tokens THEN pending[echo] ELSE NoCall

\* lines 99-104: the spawned task removes the entry and fires its Sender;
\* tx.send fails, and is ignored, when the Receiver is gone.
EchoTaskRun(k) ==
    /\ BagIn(k, echoTasks)
    /\ echoTasks' = echoTasks (-) SetToBag({k})
    /\ LET owner == EchoTarget(k.echo) IN
         IF owner /= NoCall
           THEN /\ pending' = RemoveRequest(k.echo)
                /\ consumed' = [consumed EXCEPT ![owner] = Append(@, "reply")]
                /\ sig' = IF RxAlive(owner) THEN [sig EXCEPT ![owner] = k.data] ELSE sig
           ELSE UNCHANGED <<pending, sig, consumed>>
    /\ UNCHANGED <<botVars, sink, sinkLock, callPc, callTok, callResult, wire,
                   nreplies, tasks, spawnedLate, initLog, sent, caller>>

\* ------------------------------------------------------- FlowBot::run
\* line 219: self.connect().await? succeeds.
RunConnectOk ==
    /\ botPc = "connect"
    /\ botPc' = "set_sink"
    /\ UNCHANGED <<handlers, cfgVars, runResult, sink, sinkLock, pending, callVars, wire, loopVars>>

\* line 219: self.connect().await? fails and run returns the error.
RunConnectErr ==
    /\ botPc = "connect"
    /\ botPc' = "returned"
    /\ runResult' = "WebSocketError"
    /\ UNCHANGED <<handlers, cfgVars, sink, sinkLock, pending, callVars, wire, loopVars>>

\* lines 248-251: set_sink locks the sink and stores the write half.
RunSetSink ==
    /\ botPc = "set_sink"
    /\ sinkLock = NoCall
    /\ sink' = "attached"
    /\ botPc' = "loop"
    /\ UNCHANGED <<handlers, cfgVars, runResult, sinkLock, pending, callVars, wire, loopVars>>

\* Faulty variant of ReadReady: handle_event awaits the pipeline instead of
\* spawning it, so the loop reads on only when no handler is running.
ReadReadyInline ==
    botPc = "loop" /\ \A t \in BagToSet(tasks) : t.phase /= "body"

\* Faulty variant of ReadReady: on_recv_echo does its work in the loop's own
\* task, so the loop reads on only when no reply intake is outstanding.
ReadReadyAfterIntake == botPc = "loop" /\ echoTasks = EmptyBag

\* The read loop is at read.next().await and takes in the next frame.
ReadReady == botPc = "loop"

\* line 257: read.next() yields None; run_msg_loop returns Ok(()) and run
\* goes on to init_services (line 223).
LoopStreamEnd ==
    /\ botPc = "loop"
    /\ botPc' = "init"
    /\ UNCHANGED <<handlers, cfgVars, runResult, sink, sinkLock, pending, callVars, wire, loopVars>>

\* line 258: msg? is an error; run_msg_loop and run return it.
LoopWsError ==
    /\ botPc = "loop"
    /\ botPc' = "returned"
    /\ runResult' = "WebSocketError"
    /\ UNCHANGED <<handlers, cfgVars, sink, sinkLock, pending, callVars, wire, loopVars>>

\* Faulty variant of LoopNonText: a frame that is no text ends the loop
\* like a connection error.
LoopNonTextCloses ==
    /\ ReadReady
    /\ botPc' = "returned"
    /\ runResult' = "WebSocketError"
    /\ UNCHANGED <<handlers, cfgVars, sink, sinkLock, pending, callVars, wire, loopVars>>

\* line 259: the message is not Message::Text.
LoopNonText ==
    /\ ReadReady
    /\ UNCHANGED vars

\* line 303: the text is not JSON and check_is_echo's unwrap panics.
LoopBadJson ==
    /\ ReadReady
    /\ botPc' = "panicked"
    /\ UNCHANGED <<handlers, cfgVars, runResult, sink, sinkLock, pending, callVars, wire, loopVars>>

\* The reply texts the peer can send: an echo it has seen on the socket, or
\* one no call generated.
ReplyTexts == (wire \cup {UnknownTok}) \X Bodies

\* Faulty variant of CheckIsEcho: a text counts as a reply only when its echo
\* is the token of a pending request.
CheckIsEchoPending(f) == f[1] \in Tokens /\ pending[f[1]] /= NoCall

\* lines 302-310: a frame <<echo, body>> is a reply when the text has a
\* string "echo" field; the pending table is not looked at.
CheckIsEcho(f) == f[1] /= NoTok

\* The text of an event: it has no "echo" field.
EventFrame(ev) == <<NoTok, ev>>

\* lines 260-264: a text in the shape of a reply. With a string "echo" it
\* goes to on_recv_echo and the loop continues; a text check_is_echo lets
\* through goes to handle_event, where it does not decode as an Event.
LoopReply(text) ==
    /\ ReadReady
    /\ nreplies < MaxReplies
    /\ text \in ReplyTexts
    /\ nreplies' = nreplies + 1
    /\ IF CheckIsEcho(text)
         THEN /\ OnRecvEcho(text)
              /\ UNCHANGED botVars
         ELSE /\ botPc' = "returned"
              /\ runResult' = "JsonError"
              /\ UNCHANGED <<handlers, cfgVars, echoTasks>>
    /\ UNCHANGED <<sink, sinkLock, pending, callVars, wire, tasks, spawnedLate, initLog, consumed, sent, caller>>

TaskSet == BagToSet(tasks)

\* A handler body or a serve entry point is running and has not returned.
Stalled == \E t \in TaskSet : t.phase = "body"

\* Faulty variant of SpawnDispatch: the event gets two dispatch tasks.
SpawnDispatchTwice(ev) ==
    tasks (+) SetToBag({[ev |-> ev, idx |-> 1, phase |-> "ready", log |-> <<>>]})
          (+) SetToBag({[ev |-> ev, idx |-> 1, phase |-> "ready", log |-> <<>>]})

\* lines 278-299: handle_event spawns the dispatch task of the event. The
\* tasks are anonymous and independent: a bag of their states.
SpawnDispatch(ev) ==
    tasks (+) SetToBag({[ev |-> ev, idx |-> 1, phase |-> "ready", log |-> <<>>]})

\* line 264: the text has no string "echo" and decodes as an Event.
LoopEvent(ev) ==
    /\ ReadReady
    /\ ~CheckIsEcho(EventFrame(ev))
    /\ BagCardinality(tasks) < MaxEvents
    /\ tasks' = SpawnDispatch(ev)
    /\ spawnedLate' = (spawnedLate \/ Stalled)
    /\ UNCHANGED <<botVars, sink, sinkLock, pending, callVars, wire, nreplies, echoTasks, initLog, consumed, sent, caller>>

\* lines 264, 279: the text has no string "echo" and does not decode as
\* an Event; handle_event, run_msg_loop and run return the error.
LoopBadEvent ==
    /\ ReadReady
    /\ botPc' = "returned"
    /\ runResult' = "JsonError"
    /\ UNCHANGED <<handlers, cfgVars, sink, sinkLock, pending, callVars, wire, loopVars>>

\* lines 270-276: the services init_services has still to initialise.
ServicesLeft ==
    {k \in 1..Len(handlers) :
        /\ handlers[k].kind = "Service"
        /\ \A j \in 1..Len(initLog) : initLog[j] < k}

\* line 273: service.init(self.context.clone()).await for the next service.
InitService ==
    /\ botPc = "init"
    /\ ServicesLeft /= {}
    /\ initLog' = Append(initLog, Min(ServicesLeft))
    /\ UNCHANGED <<botVars, sink, sinkLock, pending, callVars, wire, nreplies, echoTasks, tasks, spawnedLate, consumed, sent, caller>>

\* line 225: init_services is through and run returns Ok(()).
RunReturnOk ==
    /\ botPc = "init"
    /\ ServicesLeft = {}
    /\ botPc' = "returned"
    /\ runResult' = "Ok"
    /\ UNCHANGED <<handlers, cfgVars, sink, sinkLock, pending, callVars, wire, loopVars>>

\* ------------------------------------- the dispatch task (handle_event)
LogEntry(op, k, ctl) == [op |-> op, reg |-> k, ctl |-> ctl]

\* Faulty variant of AfterControl: the loop breaks on Skip as well.
AfterControlSkipBreaks(ctl, idx) ==
    IF ctl \in {"Block", "Skip"} THEN Len(handlers) + 1 ELSE idx + 1

\* Faulty variant of AfterControl: the loop does not break on Block.
AfterControlNoBreak(ctl, idx) == idx + 1

\* lines 294-296: break on Block, otherwise the next registration.
AfterControl(ctl, idx) == IF ctl = "Block" THEN Len(handlers) + 1 ELSE idx + 1

\* Faulty variant of Spawned: the dispatch tasks are owned by the read loop
\* and are aborted when it returns.
SpawnedInLoop(t) == BagIn(t, tasks) /\ botPc = "loop"

\* line 283: tokio::spawn detaches the task (its JoinHandle is dropped), so
\* it runs on whatever becomes of the read loop.
Spawned(t) == BagIn(t, tasks)

\* lines 284-292 and handler.rs 44-48: the task invokes the registration
\* it stands at. A bare handler resolves its extractor tuple and returns
\* Skip when one of them yields None; otherwise its body starts. A
\* service's serve starts directly.
Replace(t, u) == (tasks (-) SetToBag({t})) (+) SetToBag({u})

TaskCall(t) ==
    /\ Spawned(t)
    /\ t.phase = "ready"
    /\ t.idx \in 1..Len(handlers)
    /\ ~(handlers[t.idx].kind = "Handler" /\ NeedsFetch(handlers[t.idx].args, t.ev))
    /\ LET k == t.idx
           reg == handlers[k]
       IN IF reg.kind = "Handler" /\ ~AllSome(reg.args, t.ev)
            THEN tasks' = Replace(t,
                     [t EXCEPT !.idx = AfterControl("Skip", k),
                               !.log = t.log \o <<LogEntry("call", k, "-"),
                                                  LogEntry("ret", k, "Skip")>>])
            ELSE tasks' = Replace(t,
                     [t EXCEPT !.phase = "body",
                               !.log = t.log \o <<LogEntry("call", k, "-"),
                                                  LogEntry("body", k, "-")>>])
    /\ UNCHANGED <<botVars, sink, sinkLock, pending, callVars, wire, nreplies, echoTasks, spawnedLate, initLog, consumed, sent, caller>>

\* handler.rs 45 with extract.rs 214-219: the handler of the task's
\* registration is called and its Reply extractor comes to get_message;
\* the task awaits the nested call c of the context.
TaskFetch(t, c) ==
    /\ Spawned(t)
    /\ t.phase = "ready"
    /\ t.idx \in 1..Len(handlers)
    /\ handlers[t.idx].kind = "Handler"
    /\ NeedsFetch(handlers[t.idx].args, t.ev)
    /\ callPc[c] = "idle"
    /\ caller[c] = None
    /\ LET u == [t EXCEPT !.phase = "fetch",
                          !.log = t.log \o <<LogEntry("call", t.idx, "-"),
                                             LogEntry("fetch", t.idx, "-")>>]
       IN /\ tasks' = Replace(t, u)
          /\ caller' = [caller EXCEPT ![c] = Some(u)]
    /\ UNCHANGED <<botVars, sink, sinkLock, pending, callVars, wire, nreplies, echoTasks, spawnedLate, initLog, consumed, sent>>

\* extract.rs 219-221 and handler.rs 45-48: get_message has returned; Reply
\* yields Some on Ok and None otherwise, and the body runs when every
\* extractor of the tuple yielded Some.
TaskFetched(c) ==
    /\ caller[c] /= None
    /\ callPc[c] = "done"
    /\ LET u == caller[c][1]
           k == u.idx
           res == callResult[c]
       IN /\ BagIn(u, tasks)
          /\ IF AllSomeWith(handlers[k].args, u.ev, res)
               THEN tasks' = Replace(u,
                        [u EXCEPT !.phase = "body",
                                  !.log = u.log \o <<LogEntry("fetched", k, res),
                                                     LogEntry("body", k, "-")>>])
               ELSE tasks' = Replace(u,
                        [u EXCEPT !.phase = "ready",
                                  !.idx = AfterControl("Skip", k),
                                  !.log = u.log \o <<LogEntry("fetched", k, res),
                                                     LogEntry("ret", k, "Skip")>>])
    /\ caller' = [caller EXCEPT ![c] = None]
    /\ UNCHANGED <<botVars, sink, sinkLock, pending, callVars, wire, nreplies, echoTasks, spawnedLate, initLog, consumed, sent>>

\* The handler body or the service's serve returns its HandlerControl.
TaskReturn(t, ctl) ==
    /\ Spawned(t)
    /\ t.phase = "body"
    /\ tasks' = Replace(t,
              [t EXCEPT !.phase = "ready",
                        !.idx = AfterControl(ctl, t.idx),
                        !.log = Append(t.log, LogEntry("ret", t.idx, ctl))])
    /\ UNCHANGED <<botVars, sink, sinkLock, pending, callVars, wire, nreplies, echoTasks, spawnedLate, initLog, consumed, sent, caller>>

\* What `?` meets in a body: Err(_) of a Result or None of an Option.
Residuals == {"Err", "None"}

\* Faulty variant of FromResidual: an Err stops the pipeline.
FromResidualErrBlocks(r) == IF r = "Err" THEN "Block" ELSE "Skip"

\* handler.rs 13-27: both FromResidual impls of HandlerControl give Skip.
FromResidual(r) ==
    CASE r = "Err" -> "Skip"
      [] r = "None" -> "Skip"

\* The body leaves through `?` on a failed call result or an absent value:
\* it returns the control from_residual makes of the residual.
TaskAbort(t, r) ==
    /\ Spawned(t)
    /\ t.phase = "body"
    /\ tasks' = Replace(t,
              [t EXCEPT !.phase = "ready",
                        !.idx = AfterControl(FromResidual(r), t.idx),
                        !.log = t.log \o <<LogEntry("abort", t.idx, r),
                                           LogEntry("ret", t.idx, FromResidual(r))>>])
    /\ UNCHANGED <<botVars, sink, sinkLock, pending, callVars, wire, nreplies, echoTasks, spawnedLate, initLog, consumed, sent, caller>>

\* ---------------------------------------- TursoDispatcher::get_database
\* The databases built so far; each build gives a new one.
Builds == Cardinality({i \in 1..Len(turso.gets) : turso.gets[i].built})

\* turso.rs 34-43: return the entry found under key (lines 35-37);
\* otherwise build the database of the key's file, which may fail (line
\* 40), insert it under the url (line 41) and return it.
GetDatabase(key, buildOk) ==
    /\ Len(turso.gets) < MaxGets
    /\ LET hit == turso.databases[key] /= NoDb
           db == IF hit THEN turso.databases[key]
                 ELSE IF buildOk THEN Builds + 1 ELSE NoDb
       IN /\ hit => buildOk
          /\ turso' = [databases |-> IF ~hit /\ buildOk
                                       THEN [turso.databases EXCEPT ![Url(key)] = db]
                                       ELSE turso.databases,
                       gets |-> Append(turso.gets,
                                       [key |-> key, db |-> db, built |-> ~hit /\ buildOk])]
    /\ UNCHANGED <<reconnection, states, stateLog, extracted, handlers, botPc, runResult,
                   sink, sinkLock, pending, callVars, wire, loopVars>>

\* ------------------------------------------------ #[flow_service]
\* A method of the impl block: its extractor parameter ("none" when it has
\* none) and the control its body returns.
MethodDecls == [arg : {"none", "Message", "GroupId"}, ctl : Controls]
MethodLists == UNION {[1..n -> MethodDecls] : n \in 1..MaxMethods}

\* flow-bot-macros lib.rs 82-85: the generated serve is the methods inlined
\* one after the other. The `?` of a parameter's from_event (line 60) is in
\* a plain block of serve, so a None leaves serve itself with from_residual
\* (handler.rs 21-27); a body that gave Block returns Block (lines 72-74);
\* after the last method serve gives Continue (line 84). ran lists the
\* methods whose body ran.
RECURSIVE ServeFrom(_, _, _, _)
ServeFrom(ms, i, ev, ran) ==
    IF i > Len(ms) THEN [ctl |-> "Continue", ran |-> ran]
    ELSE IF ms[i].arg /= "none" /\ ~FromEvent(ms[i].arg, ev)
           THEN [ctl |-> FromResidual("None"), ran |-> ran]
    ELSE IF ms[i].ctl = "Block"
           THEN [ctl |-> "Block", ran |-> Append(ran, i)]
    ELSE ServeFrom(ms, i + 1, ev, Append(ran, i))

Serve(ms, ev) == ServeFrom(ms, 1, ev, <<>>)

\* A serve call of the service with methods ms on event ev.
ProbeServe(ms, ev) ==
    /\ botPc = "connect"
    /\ extracted.kind = "none"
    /\ extracted' = [kind |-> "serve", args |-> ms, ev |-> ev, out |-> Serve(ms, ev)]
    /\ UNCHANGED <<reconnection, turso, states, stateLog, handlers, botPc, runResult, sink,
                   sinkLock, pending, callVars, wire, loopVars>>

CallStep(c) ==
    \/ CallRegister(c)
    \/ CallEncodeFail(c)
    \/ CallLock(c)
    \/ CallNoConnection(c)
    \/ CallSendOk(c)
    \/ CallSendErr(c)
    \/ CallWake(c)
    \/ CallElapsed(c)
    \/ CallCleanup(c)

BuilderStep ==
    \/ \E args \in ArgTuples : WithHandler(args)
    \/ WithService

ConnectStep ==
    \/ Build
    \/ RunConnectOk
    \/ RunConnectErr
    \/ RunSetSink

StreamEndStep ==
    \/ LoopStreamEnd
    \/ InitService
    \/ RunReturnOk

BadFrameStep ==
    \/ LoopBadJson
    \/ LoopBadEvent

ReplyStep ==
    \/ \E text \in Texts : LoopReply(text)
    \/ \E k \in BagToSet(echoTasks) : EchoTaskRun(k)

SpawnStep ==
    \/ \E ev \in EventKinds : LoopEvent(ev)
    \/ \E t \in BagToSet(tasks) : TaskCall(t)

ReturnStep == \E t \in BagToSet(tasks), ctl \in Controls : TaskReturn(t, ctl)

AbortStep == \E t \in BagToSet(tasks), r \in Residuals : TaskAbort(t, r)

\* The steps of a call issued by a dispatch task: the socket is attached
\* before the first event is read.
FetchStep(c) ==
    /\ caller[c] /= None
    /\ \/ CallRegister(c)
       \/ CallEncodeFail(c)
       \/ CallLock(c)
       \/ CallSendOk(c)
       \/ CallSendErr(c)
       \/ CallWake(c)
       \/ CallElapsed(c)
       \/ CallCleanup(c)

\* The whole program.
Next ==
    \/ BuilderStep
    \/ \E key \in Keys, buildOk \in BOOLEAN : GetDatabase(key, buildOk)
    \/ \E ms \in MethodLists, ev \in EventKinds : ProbeServe(ms, ev)
    \/ \E t \in BagToSet(tasks), c \in Calls : TaskFetch(t, c)
    \/ \E c \in Calls : TaskFetched(c)
    \/ AbortStep
    \/ \E ty \in StateTypes : WithState(ty)
    \/ WithHandler(<<"BotEvent", "State">>)
    \/ ConnectStep
    \/ LoopNonText
    \/ LoopWsError
    \/ StreamEndStep
    \/ BadFrameStep
    \/ \E c \in Calls : CallStep(c)
    \/ ReplyStep
    \/ SpawnStep
    \/ ReturnStep

Spec == Init /\ [][Next]_vars

\* A bot without registrations whose context is used for calls: the RPC
\* correlation and the read loop's reply intake.
RpcNext ==
    \/ ConnectStep
    \/ LoopNonText
    \/ LoopWsError
    \/ LoopStreamEnd
    \/ RunReturnOk
    \/ \E c \in Calls : CallStep(c)
    \/ ReplyStep

RpcSpec == Init /\ [][RpcNext]_vars

\* Every dispatch task spawned so far is through with the pipeline.
Quiet == \A t \in BagToSet(tasks) : t.idx > Len(handlers)

\* The calls are interchangeable: a task takes the least unused one.
UnusedCalls == {c \in Calls : callPc[c] = "idle" /\ caller[c] = None}

\* A bot whose handlers declare a Message and a Reply argument, taking in
\* messages with a reply segment, with a reply segment whose id is no
\* number, and without one; the calls are those of the Reply extractor.
\* The peer sends an event when the one before has been handled, and
\* replies only with echoes it has seen.
ReplyNext ==
    \/ WithHandler(<<"Message", "Reply">>)
    \/ ConnectStep
    \/ \E ev \in {"reply", "reply_nan", "private"} : Quiet /\ LoopEvent(ev)
    \/ \E t \in BagToSet(tasks) : TaskCall(t) \/ TaskReturn(t, "Continue")
    \/ \E t \in BagToSet(tasks), c \in UnusedCalls :
          c = Min(UnusedCalls) /\ TaskFetch(t, c)
    \/ \E c \in Calls : FetchStep(c) \/ TaskFetched(c)
    \/ \E text \in wire \X Bodies : LoopReply(text)
    \/ \E k \in BagToSet(echoTasks) : EchoTaskRun(k)

ReplySpec == Init /\ [][ReplyNext]_vars

\* A bot whose handlers declare a GroupId argument before a Reply argument,
\* taking in private and group messages with a reply segment and group
\* messages without one; environment as in ReplyNext.
OrderNext ==
    \/ WithHandler(<<"GroupId", "Reply">>)
    \/ ConnectStep
    \/ \E ev \in {"reply", "group_reply", "group"} : Quiet /\ LoopEvent(ev)
    \/ \E t \in BagToSet(tasks) : TaskCall(t) \/ TaskReturn(t, "Continue")
    \/ \E t \in BagToSet(tasks), c \in UnusedCalls :
          c = Min(UnusedCalls) /\ TaskFetch(t, c)
    \/ \E c \in Calls : FetchStep(c) \/ TaskFetched(c)
    \/ \E text \in wire \X Bodies : LoopReply(text)
    \/ \E k \in BagToSet(echoTasks) : EchoTaskRun(k)

OrderSpec == Init /\ [][OrderNext]_vars

\* The dispatcher alone, asked for the databases of its keys.
TursoNext == \E key \in Keys, buildOk \in BOOLEAN : GetDatabase(key, buildOk)

TursoSpec == Init /\ [][TursoNext]_vars

\* One call and the read loop's reply intake, on a stream that does not
\* end: the peer answers the call, repeats an answer or sends replies
\* nobody asked for.
IntakeNext ==
    \/ ConnectStep
    \/ LoopNonText
    \/ CallStep(1)
    \/ ReplyStep

IntakeSpec == Init /\ [][IntakeNext]_vars

\* Calls contending for the write half, on a bot whose server never
\* answers. The mutex of tokio queues its waiters, and the guarded block
\* of a call that holds the guard runs to its end once its send completes.
LockNext ==
    \/ ConnectStep
    \/ \E c \in Calls :
          \/ CallRegister(c)
          \/ CallEncodeFail(c)
          \/ CallLock(c)
          \/ CallNoConnection(c)
          \/ CallSendOk(c)
          \/ CallSendErr(c)
          \/ CallElapsed(c)
          \/ CallCleanup(c)

\* The read loop on frames of every kind: texts that are replies, events,
\* JSON that is no event or no JSON at all, and frames that are no text,
\* with one call of the context and the dispatch tasks of the events, on
\* a bot of plain handlers whose bodies return Continue.
FrameNext ==
    \/ \E args \in ArgTuples : WithHandler(args)
    \/ ConnectStep
    \/ LoopNonText
    \/ BadFrameStep
    \/ CallStep(1)
    \/ \E text \in wire \X Bodies : LoopReply(text)
    \/ \E k \in BagToSet(echoTasks) : EchoTaskRun(k)
    \/ LoopEvent("group")
    \/ \E t \in BagToSet(tasks) : TaskCall(t) \/ TaskReturn(t, "Continue")

FrameSpec == Init /\ [][FrameNext]_vars

\* Calls on a bot whose read loop may stop at any time and whose server
\* answers or not, with echoes it has seen. The mutex hands the guard to
\* its waiters, the socket write completes, and the runtime polls the wait
\* of a call when the signal fired, the Sender is gone or the time is up.
\* The calls are interchangeable: the next one started is the least idle one.
WaitNext ==
    \/ ConnectStep
    \/ LoopWsError
    \/ \E c \in Calls :
          (callPc[c] = "idle" => c = Min({d \in Calls : callPc[d] = "idle"})) /\ CallStep(c)
    \/ \E text \in wire \X Bodies : LoopReply(text)
    \/ \E k \in BagToSet(echoTasks) : EchoTaskRun(k)

WaitFairSpec ==
    /\ Init
    /\ [][WaitNext]_vars
    /\ \A c \in Calls :
          /\ WF_vars(CallLock(c))
          /\ WF_vars(CallNoConnection(c) \/ CallSendOk(c) \/ CallSendErr(c))
          /\ WF_vars(CallWake(c) \/ CallElapsed(c))
          /\ WF_vars(CallCleanup(c))

LockFairSpec ==
    /\ Init
    /\ [][LockNext]_vars
    /\ \A c \in Calls :
          /\ WF_vars(CallLock(c))
          /\ WF_vars(CallNoConnection(c) \/ CallSendOk(c) \/ CallSendErr(c))

\* A bot whose handlers issue no calls, on a stream that does not end: the
\* builder, the read loop and the dispatch tasks.
DispatchNext ==
    \/ BuilderStep
    \/ ConnectStep
    \/ LoopNonText
    \/ LoopWsError
    \/ SpawnStep
    \/ ReturnStep

DispatchSpec == Init /\ [][DispatchNext]_vars

\* The same bot, built with any reconnection strategy, on a stream that may
\* end: run from connect to its return.
RunNext ==
    \/ DispatchNext
    \/ StreamEndStep

RunSpec == RunInit /\ [][RunNext]_vars

\* The extractor combinators, applied in a bot built with any states.
ExtractNext ==
    \/ \E ty \in StateTypes : WithState(ty)
    \/ Build
    \/ \E x \in Extractors, ev \in AllEvents : ProbeOption(x, ev)
    \/ \E cands \in CandLists, ev \in AllEvents : ProbeMatchOne(cands, ev)

ExtractSpec == Init /\ [][ExtractNext]_vars

\* The serve entry point of the services #[flow_service] generates, called
\* on the events.
ServeNext ==
    \/ Build
    \/ \E ms \in MethodLists, ev \in EventKinds : ProbeServe(ms, ev)

ServeSpec == Init /\ [][ServeNext]_vars

\* A bot whose handlers declare a Message argument and a GroupId or
\* MatchGroupId<MatchId> argument, taking in message events of two groups,
\* private messages and events that are no messages.
MatchNext ==
    \/ WithHandler(<<"Message", "GroupId">>)
    \/ WithHandler(<<"Message", "MatchGroupId">>)
    \/ ConnectStep
    \/ \E ev \in {"private", "group", "group_other", "notice"} : LoopEvent(ev)
    \/ \E t \in BagToSet(tasks) : TaskCall(t)
    \/ ReturnStep

MatchSpec == Init /\ [][MatchNext]_vars

\* The pipeline alone: handlers and services in any order, taking in group
\* messages, for which every body runs, and notices, for which the
\* extractors of the handlers fail.
PipelineNext ==
    \/ BuilderStep
    \/ ConnectStep
    \/ \E ev \in {"group", "notice"} : LoopEvent(ev)
    \/ \E t \in BagToSet(tasks) : TaskCall(t)
    \/ ReturnStep

PipelineSpec == Init /\ [][PipelineNext]_vars

\* A bot of plain handlers whose bodies either return Continue or leave
\* through `?`, taking in group messages, for which every body runs.
AbortNext ==
    \/ \E args \in ArgTuples : WithHandler(args)
    \/ ConnectStep
    \/ LoopEvent("group")
    \/ \E t \in BagToSet(tasks) : TaskCall(t) \/ TaskReturn(t, "Continue")
    \/ AbortStep

AbortSpec == Init /\ [][AbortNext]_vars

\* A bot built with states and with handlers that declare a State<S>
\* argument, on a stream that does not end. The State extractor does not
\* look at the event, so one kind of event stands for all.
StateNext ==
    \/ \E ty \in StateTypes : WithState(ty)
    \/ WithHandler(<<"BotEvent", "State">>)
    \/ ConnectStep
    \/ LoopEvent("notice")
    \/ \E t \in BagToSet(tasks) : TaskCall(t)
    \/ ReturnStep

StateSpec == Init /\ [][StateNext]_vars

\* A bot whose handler bodies and serve entry points never return, one of
\* them issuing a call of the context: the read loop, the dispatch tasks
\* and the RPC correlation together.
StallNext ==
    \/ BuilderStep
    \/ ConnectStep
    \/ LoopNonText
    \/ (Stalled /\ CallStep(1))
    \/ ReplyStep
    \/ SpawnStep

StallSpec == Init /\ [][StallNext]_vars

\* ================================================================ claims
Written(c) == callTok[c] \in wire
Done(c) == callPc[c] = "done"

\* C1: a call only ever receives a reply text that carries its own token,
\* whatever the order in which the replies of concurrent calls arrive.
C1_RepliesNotSwapped ==
    \A c \in Calls : sig[c] /= NoText => sig[c][1] = callTok[c]

\* Two calls are in flight with distinct tokens, the reply to the second
\* one was taken in and delivered first, the first still waits for its own.
C1_Witness ==
    /\ callTok[1] = 1 /\ callTok[2] = 2
    /\ wire = {1, 2}
    /\ nreplies = 1
    /\ callResult[2] = "Ok" /\ sig[2][1] = 2
    /\ callPc[1] = "waiting" /\ sig[1] = NoText

\* C2, as stated: a call whose frame was written returns success exactly
\* when a reply bearing its token was delivered before the deadline fired,
\* and otherwise returns Timeout with no entry left for its token.
C2_Original ==
    \A c \in Calls : (Done(c) /\ Written(c)) =>
        /\ callResult[c] = "Ok" <=> sig[c] /= NoText
        /\ callResult[c] /= "Ok" =>
              callResult[c] = "Timeout" /\ pending[callTok[c]] = NoCall

\* C2, amended: a call whose frame was written returns, when a reply
\* bearing its token was delivered before the deadline fired, success if
\* the reply text decodes and JsonError if it does not; otherwise it returns
\* Timeout; in each case no entry is left for its token.
C2_Amended ==
    \A c \in Calls : (Done(c) /\ Written(c)) =>
        /\ sig[c] /= NoText =>
              callResult[c] = (IF Decodes(sig[c]) THEN "Ok" ELSE "JsonError")
        /\ sig[c] = NoText => callResult[c] = "Timeout"
        /\ pending[callTok[c]] = NoCall

\* One written call returned success and another written call timed out.
C2_Witness ==
    \E c, d \in Calls :
        /\ Written(c) /\ callResult[c] = "Ok"
        /\ Written(d) /\ callResult[d] = "Timeout"

\* The reply of task k has no pending entry.
NoEntry(k) == k.echo \notin Tokens \/ pending[k.echo] = NoCall

\* C3: reply intake for a token without a pending entry changes nothing:
\* the table, every call and the read loop are as before.
C3_UnmatchedReplyIsDropped ==
    [][\A k \in BagToSet(echoTasks) :
          (EchoTaskRun(k) /\ NoEntry(k)) =>
              UNCHANGED <<pending, callVars, botVars, sink, sinkLock>>]_vars

\* Only one call was ever issued, it returned success, and two replies
\* were taken in and dropped or delivered: at least one of them met no entry,
\* and the read loop is still running.
C3_Witness ==
    /\ callResult[1] = "Ok"
    /\ \A c \in Calls \ {1} : callPc[c] = "idle"
    /\ nreplies = 2
    /\ echoTasks = EmptyBag
    /\ botPc = "loop"

\* C4, as stated: a call attempted with no socket attached returns
\* NoConnection, writes no frame and leaves no entry for its token.
C4_NoConnectionLeavesNoEntry ==
    \A c \in Calls : callResult[c] = "NoConnection" =>
        /\ ~Written(c)
        /\ pending[callTok[c]] = NoCall

\* C10: the entry of a call is in the table from before its frame is
\* written until a reply is delivered or the deadline fires, so a reply taken
\* in at any moment after the write meets it.
C10_RegisteredBeforeWrite ==
    \A c \in Calls :
        /\ Written(c) => callPc[c] \in {"waiting", "elapsed", "done"}
        /\ (callPc[c] \in {"locked", "waiting"} /\ sig[c] = NoText) =>
              pending[callTok[c]] = c

\* The reply was delivered to the entry before the caller was polled again.
C10_Witness ==
    \E c \in Calls : callPc[c] = "waiting" /\ sig[c] /= NoText /\ sig[c][1] = callTok[c]

Positions(t) == 1..Len(t.log)
\* Some extractor of registration k yields None on the event of task t.
ExtractFails(k, t) ==
    /\ handlers[k].kind = "Handler"
    /\ \E i \in 1..Len(handlers[k].args) : ~FromEvent(handlers[k].args[i], t.ev)

\* C5: once a registration has returned Block for an event, nothing more
\* is invoked for that event: the Block is the last entry of the task's log
\* and the task is past the last registration.
C5_BlockStopsPipeline ==
    \A t \in TaskSet : \A p \in Positions(t) :
        (t.log[p].op = "ret" /\ t.log[p].ctl = "Block") =>
            /\ p = Len(t.log)
            /\ t.phase = "ready"
            /\ t.idx > Len(handlers)

\* The first of two registrations returned Block.
C5_Witness ==
    \E t \in TaskSet :
        /\ Len(handlers) = MaxRegs
        /\ Len(t.log) > 0
        /\ t.log[Len(t.log)] = LogEntry("ret", 1, "Block")

\* C6: when an extractor of a bare handler yields None for the event, the
\* handler's body does not run, the invocation returns Skip at once, and the
\* task stands at the next registration, as after Continue.
C6_FailedExtractorSkips ==
    \A t \in TaskSet : \A p \in Positions(t) :
        LET k == t.log[p].reg IN
        ExtractFails(k, t) =>
            /\ t.log[p].op /= "body"
            /\ t.log[p].op = "call" =>
                  /\ p < Len(t.log)
                  /\ t.log[p + 1] = LogEntry("ret", k, "Skip")
                  /\ p + 1 = Len(t.log) => (t.phase = "ready" /\ t.idx = k + 1)

\* A handler was skipped because its third extractor yields None although
\* its first two yield Some, and the next registration was invoked.
C6_Witness ==
    \E t \in TaskSet : \E p \in Positions(t) :
        /\ t.ev = "private"
        /\ ExtractFails(1, t)
        /\ t.log[p] = LogEntry("ret", 1, "Skip")
        /\ p < Len(t.log)
        /\ t.log[p + 1] = LogEntry("call", 2, "-")

\* C7, as stated: by the time the read loop has taken in a frame, init has
\* run once for every registered service, in registration order.
C7_InitBeforeFirstFrame ==
    (tasks /= EmptyBag) =>
        /\ Len(initLog) = Cardinality({k \in 1..Len(handlers) : handlers[k].kind = "Service"})
        /\ \A i, j \in 1..Len(initLog) : i < j => initLog[i] < initLog[j]

\* C8: while a handler is stalled in the dispatch task of one event, the
\* read loop still takes in the next frame, be it a reply or an event, and
\* every spawned reply intake still runs.
C8_StalledHandlerDoesNotBlockLoop ==
    (Stalled /\ botPc = "loop") =>
        /\ nreplies < MaxReplies => \A text \in ReplyTexts : ENABLED LoopReply(text)
        /\ BagCardinality(tasks) < MaxEvents => \A ev \in EventKinds : ENABLED LoopEvent(ev)
        /\ \A k \in BagToSet(echoTasks) : ENABLED EchoTaskRun(k)

\* With a handler stalled on one event, a later event got its dispatch
\* task and the call issued from the handler got its reply.
C8_Witness ==
    /\ Stalled
    /\ spawnedLate
    /\ callResult[1] = "Ok"
    /\ botPc = "loop"

\* C9: within a task the registrations are invoked in the order in which
\* they were added to the builder, one after the other: the first entry of
\* the log invokes the first registration added, and every later invocation
\* follows the return of the registration added just before it.
C9_RegistrationOrder ==
    /\ \A k \in 1..Len(handlers) : handlers[k].ord = k
    /\ \A t \in TaskSet : \A p \in Positions(t) :
          t.log[p].op = "call" =>
              IF p = 1 THEN t.log[p].reg = 1
              ELSE /\ t.log[p - 1].op = "ret"
                   /\ t.log[p].reg = t.log[p - 1].reg + 1

\* A handler and a service were added in that order and both were invoked
\* for one event.
C9_Witness ==
    \E t \in TaskSet :
        /\ Len(handlers) = 2
        /\ handlers[1].kind = "Handler" /\ handlers[2].kind = "Service"
        /\ \E p \in Positions(t) : t.log[p] = LogEntry("call", 2, "-")

\* A call that has registered its request and neither got a reply nor
\* gave up waiting.
Outstanding(c) ==
    callPc[c] \in {"registered", "locked", "waiting"} /\ sig[c] = NoText

\* C11: the token a new call generates is not in the pending table when the
\* call inserts it, the insertion touches no other entry, and so every
\* outstanding call keeps its own completion signal under its own token.
C11_FreshTokenPerCall ==
    /\ [][\A c \in Calls : CallRegister(c) =>
             /\ pending[callTok'[c]] = NoCall
             /\ \A t \in Tokens \ {callTok'[c]} : pending'[t] = pending[t]]_vars
    /\ [](\A c \in Calls : Outstanding(c) => pending[callTok[c]] = c)
    /\ [](\A c, d \in Calls :
             (c /= d /\ callTok[c] /= NoTok) => callTok[c] /= callTok[d])

\* Two calls are outstanding at once, each with its own entry.
C11_Witness ==
    /\ Outstanding(1) /\ Outstanding(2)
    /\ pending[callTok[1]] = 1 /\ pending[callTok[2]] = 2
    /\ callPc[1] = "waiting" /\ callPc[2] = "registered"

\* C12, as stated: the entry of every call is taken out of the table exactly
\* once, by reply intake or by the removal after the timeout, never by
\* both and never twice; once a call has returned its entry has been taken.
C12_EntryConsumedExactlyOnce ==
    \A c \in Calls :
        /\ Len(consumed[c]) <= 1
        /\ Done(c) => Len(consumed[c]) = 1

\* The echo of the text is the token of a request pending right now.
MatchesPending(text) == text[1] \in Tokens /\ pending[text[1]] /= NoCall

\* C13, as stated: a text frame goes to reply intake, and is not
\* dispatched, exactly when its echo matches a pending request; every other
\* text frame gets a newly spawned dispatch task.
C13_Original ==
    [][\A text \in Texts : LoopReply(text) =>
          IF MatchesPending(text)
            THEN echoTasks' /= echoTasks /\ tasks' = tasks
            ELSE BagCardinality(tasks') = BagCardinality(tasks) + 1]_vars

\* C13, amended: a text frame with a string echo goes to reply intake and
\* is not dispatched, whether or not its echo matches a pending request, and
\* the loop reads on; a text frame without an echo that decodes as an event
\* gets a newly spawned dispatch task at the head of the pipeline, and no
\* reply intake.
C13_Amended ==
    [][/\ \A text \in Texts : LoopReply(text) =>
             /\ BagCardinality(echoTasks') = BagCardinality(echoTasks) + 1
             /\ BagIn([echo |-> text[1], data |-> text], echoTasks')
             /\ tasks' = tasks
             /\ UNCHANGED <<botVars, pending>>
       /\ \A ev \in EventKinds : LoopEvent(ev) =>
             /\ BagCardinality(tasks') = BagCardinality(tasks) + 1
             /\ BagIn([ev |-> ev, idx |-> 1, phase |-> "ready", log |-> <<>>], tasks')
             /\ echoTasks' = echoTasks
             /\ UNCHANGED <<botVars, pending>>]_vars

\* No call was ever written, so the one reply-shaped frame taken in matched
\* no pending request: it went to reply intake and got no dispatch task,
\* while the one event frame taken in got its task; the loop is running.
C13_Witness ==
    /\ wire = {}
    /\ nreplies = 1
    /\ BagCardinality(echoTasks) = 1
    /\ BagCardinality(tasks) = 1
    /\ botPc = "loop"

\* C14, as stated: once the read loop has terminated on a socket error, the
\* completion-signal producer of a call still suspended awaiting its reply
\* (no intake for it in flight) has been dropped without firing, so the call
\* wakes to NoResponse.
C14_SocketDropGivesNoResponse ==
    \A c \in Calls :
        (/\ botPc = "returned" /\ runResult = "WebSocketError"
         /\ callPc[c] = "waiting" /\ sig[c] = NoText
         /\ echoTasks = EmptyBag)
        => TxDropped(c)

\* C15, as stated: run ends with the connection error that terminated the
\* read loop only when the strategy is None or Limited with no attempt left;
\* with Infinite or Limited and attempts left a new connection attempt
\* follows instead. (The program makes no reconnection attempt, so a Limited
\* strategy has attempts left unless max_attempts is 0.)
C15_ReconnectAfterConnectionError ==
    (botPc = "returned" /\ runResult = "WebSocketError" /\ sink = "attached") =>
        \/ reconnection.kind = "None"
        \/ reconnection.kind = "Limited" /\ reconnection.max_attempts = 0

\* C16, as stated: run never returns Ok(()).
C16_RunNeverReturnsOk ==
    botPc = "returned" => runResult /= "Ok"

\* C17: a connection error that terminates the read loop leaves the
\* dispatch tasks as they are, and afterwards every task can still take its
\* next step: invoke the registration it stands at, or return from the body
\* it is in with any control.
C17_TasksSurviveConnectionError ==
    /\ [][LoopWsError => tasks' = tasks]_vars
    /\ []((botPc = "returned" /\ runResult = "WebSocketError") =>
            \A t \in TaskSet :
               /\ (t.phase = "ready" /\ t.idx <= Len(handlers)) => ENABLED TaskCall(t)
               /\ t.phase = "body" => \A ctl \in Controls : ENABLED TaskReturn(t, ctl))

\* The read loop has terminated on a connection error while one dispatch
\* task is inside the body of the first of two registrations and another
\* has not yet invoked any.
C17_Witness ==
    /\ botPc = "returned" /\ runResult = "WebSocketError"
    /\ Len(handlers) = 2
    /\ \E t \in TaskSet : t.phase = "body" /\ t.idx = 1
    /\ \E t \in TaskSet : t.phase = "ready" /\ t.log = <<>>

\* C18: the write guard is held by a call only between taking the lock and
\* the end of its send, never while it awaits its reply or cleans up after
\* the timeout; so a call that wants to write can take the lock whenever no
\* other call is in the middle of its send, however many are waiting.
C18_GuardNotHeldWhileWaiting ==
    \A c \in Calls :
        /\ sinkLock = c => callPc[c] = "locked"
        /\ (callPc[c] = "registered" /\ \A d \in Calls : callPc[d] /= "locked")
              => ENABLED CallLock(c)

\* One call is suspended awaiting its reply while another holds the guard
\* for its own send.
C18_Witness ==
    /\ callPc[1] = "waiting" /\ sig[1] = NoText
    /\ callPc[2] = "locked" /\ sinkLock = 2
    /\ sink = "attached"

\* The rank of the latest with_state call for type ty, NoState if none.
LastRegistered(ty) ==
    LET R == {n \in 1..Len(stateLog) : stateLog[n] = ty}
    IN IF R = {} THEN NoState ELSE CHOOSE n \in R : \A m \in R : m <= n

\* C19: the registry yields for every type the value of the latest
\* with_state call for that type (none if there was none), and a with_state
\* call leaves the values of all other types as they were.
C19_StateInsertReplaces ==
    /\ [](\A ty \in StateTypes : StateGet(ty) = LastRegistered(ty))
    /\ [][\A ty \in StateTypes : WithState(ty) =>
             \A u \in StateTypes \ {ty} : states'[u] = states[u]]_vars

\* S was registered, then T, then S again; a handler declaring State<S>
\* runs with the value of the third call, and T still has its own.
C19_Witness ==
    /\ stateLog = <<"S", "T", "S">>
    /\ StateGet("S") = 3 /\ StateGet("T") = 2
    /\ \E t \in TaskSet : t.phase = "body"

\* Registration k is a bare handler declaring a State<S> argument.
DeclaresState(k) ==
    /\ handlers[k].kind = "Handler"
    /\ \E i \in 1..Len(handlers[k].args) : handlers[k].args[i] = "State"

\* C20: the body of a handler declaring State<S> runs only if with_state
\* was called for S; if it never was, every invocation of the handler returns
\* Skip at once and the task goes on to the next registration.
C20_StateAbsentSkips ==
    \A t \in TaskSet : \A p \in Positions(t) :
        LET k == t.log[p].reg IN
        DeclaresState(k) =>
            /\ t.log[p].op = "body" => LastRegistered("S") /= NoState
            /\ (LastRegistered("S") = NoState /\ t.log[p].op = "call") =>
                  /\ p < Len(t.log)
                  /\ t.log[p + 1] = LogEntry("ret", k, "Skip")
                  /\ p + 1 = Len(t.log) => (t.phase = "ready" /\ t.idx = k + 1)

\* Only values of type T were registered; two handlers declaring State<S>
\* were both invoked for an event and both skipped, and the bot runs on.
C20_Witness ==
    /\ stateLog = <<"T", "T">>
    /\ botPc = "loop"
    /\ Len(handlers) = 2
    /\ DeclaresState(1) /\ DeclaresState(2)
    /\ \E t \in TaskSet :
          t.log = <<LogEntry("call", 1, "-"), LogEntry("ret", 1, "Skip"),
                    LogEntry("call", 2, "-"), LogEntry("ret", 2, "Skip")>>

\* C21: a from_event call of Option<X> always yields Some; what it carries
\* is Some of X's value when X alone succeeds on that event and None when X
\* alone fails.
C21_OptionAlwaysSucceeds ==
    extracted.kind = "Option" =>
        LET x == extracted.args[1]
            out == extracted.out
        IN /\ Len(out) = 1
           /\ Len(out[1]) = 1 <=> FromEvent(x, extracted.ev)
           /\ Len(out[1]) = 0 <=> ~FromEvent(x, extracted.ev)
           /\ FromEvent(x, extracted.ev) => out[1][1] = Extract(x, extracted.ev)[1]

\* Option<GroupId> was applied to an event that is no group message and
\* yielded Some(None).
C21_Witness ==
    /\ extracted.kind = "Option"
    /\ extracted.args = <<"GroupId">>
    /\ extracted.ev = "private"
    /\ extracted.out = Some(None)

\* C22: the enum of match_one! yields the variant of the first candidate,
\* in list order, that succeeds on the event, with that candidate's value,
\* and fails exactly when every candidate fails.
C22_MatchOneFirstMatch ==
    extracted.kind = "MatchOne" =>
        LET cands == extracted.args
            ev == extracted.ev
            out == extracted.out
            Succ == {i \in 1..Len(cands) : FromEvent(cands[i], ev)}
        IN /\ out = None <=> Succ = {}
           /\ out /= None =>
                 /\ out[1].variant \in Succ
                 /\ \A j \in Succ : out[1].variant <= j
                 /\ out[1].matcher = Extract(cands[out[1].variant], ev)[1]

\* Both candidates succeed on a group message and the first one's variant
\* was yielded.
C22_Witness ==
    /\ extracted.kind = "MatchOne"
    /\ extracted.args = <<"GroupId", "Message">>
    /\ extracted.ev = "group_other"
    /\ extracted.out = Some([variant |-> 1, matcher |-> [group_id |-> 2]])

\* Registration k is a bare handler declaring exactly the arguments args.
Declares(k, args) == handlers[k].kind = "Handler" /\ handlers[k].args = args

\* C23: every invocation of a handler declaring Message and GroupId runs
\* the body when the event is a group message and otherwise returns Skip at
\* once, leaving the task at the next registration; a handler declaring
\* MatchGroupId<N> in place of GroupId runs its body only for a group message
\* whose group id is N.
C23_GroupHandlerOnlyForGroupMessages ==
    \A t \in TaskSet : \A p \in Positions(t) :
        LET k == t.log[p].reg
            invoked == t.log[p + 1].op = "body"
            skipped == /\ t.log[p + 1] = LogEntry("ret", k, "Skip")
                       /\ p + 1 = Len(t.log) => (t.phase = "ready" /\ t.idx = k + 1)
        IN t.log[p].op = "call" =>
              /\ p < Len(t.log)
              /\ Declares(k, <<"Message", "GroupId">>) =>
                    IF IsMessage(t.ev) /\ IsGroup(t.ev) THEN invoked ELSE skipped
              /\ Declares(k, <<"Message", "MatchGroupId">>) =>
                    IF IsMessage(t.ev) /\ IsGroup(t.ev) /\ GroupIdOf(t.ev) = MatchId
                      THEN invoked ELSE skipped

\* For a message of another group the handler with MatchGroupId was skipped
\* and the handler with GroupId after it was invoked.
C23_Witness ==
    /\ Len(handlers) = 2
    /\ Declares(1, <<"Message", "MatchGroupId">>)
    /\ Declares(2, <<"Message", "GroupId">>)
    /\ \E t \in TaskSet :
          /\ t.ev = "group_other"
          /\ t.log = <<LogEntry("call", 1, "-"), LogEntry("ret", 1, "Skip"),
                       LogEntry("call", 2, "-"), LogEntry("body", 2, "-")>>

\* The task has left the loop over the registrations.
Finished(t) == t.phase = "ready" /\ t.idx > Len(handlers)
\* The registrations the task has invoked.
Invoked(t) == {t.log[p].reg : p \in {q \in Positions(t) : t.log[q].op = "call"}}
NoBlock(t) == \A p \in Positions(t) : t.log[p].ctl /= "Block"

\* C24: after a registration returns Continue or Skip the task stands at
\* the next registration, the same for both, and can invoke it if there is
\* one; a task that has left the loop without any Block has invoked every
\* registration.
C24_OnlyBlockStopsPipeline ==
    \A t \in TaskSet :
        /\ \A p \in Positions(t) :
              (t.log[p].op = "ret" /\ t.log[p].ctl \in {"Continue", "Skip"}) =>
                  IF p = Len(t.log)
                    THEN /\ t.phase = "ready"
                         /\ t.idx = t.log[p].reg + 1
                         /\ t.idx <= Len(handlers) => ENABLED TaskCall(t)
                    ELSE t.log[p + 1] = LogEntry("call", t.log[p].reg + 1, "-")
        /\ (Finished(t) /\ NoBlock(t)) => Invoked(t) = 1..Len(handlers)

\* In one task the first registration returned Skip from its body, the
\* second Continue, and the task has left the loop.
C24_Witness ==
    \E t \in TaskSet :
        /\ Len(handlers) = 2
        /\ Finished(t)
        /\ \E p, q \in Positions(t) :
              /\ t.log[p] = LogEntry("body", 1, "-")
              /\ t.log[p + 1] = LogEntry("ret", 1, "Skip")
              /\ t.log[q] = LogEntry("ret", 2, "Continue")

\* C25: when a body leaves through `?`, on Err or on None, the invocation
\* returns Skip, and the task goes on to the next registration.
C25_ShortCircuitIsSkip ==
    \A t \in TaskSet : \A p \in Positions(t) :
        t.log[p].op = "abort" =>
            LET k == t.log[p].reg IN
            /\ p < Len(t.log)
            /\ t.log[p + 1] = LogEntry("ret", k, "Skip")
            /\ IF p + 1 = Len(t.log)
                 THEN /\ t.phase = "ready" /\ t.idx = k + 1
                      /\ k < Len(handlers) => ENABLED TaskCall(t)
                 ELSE t.log[p + 2] = LogEntry("call", k + 1, "-")

\* The body of the first registration left through `?` on an Err and the
\* second registration was invoked; its body left through `?` on a None.
C25_Witness ==
    \E t \in TaskSet :
        /\ Len(t.log) = 8
        /\ t.log[3] = LogEntry("abort", 1, "Err")
        /\ t.log[5] = LogEntry("call", 2, "-")
        /\ t.log[7] = LogEntry("abort", 2, "None")

\* C26: a call never retries: one invocation registers at most one pending
\* entry and writes at most one frame, whatever its outcome; a finished
\* call registered exactly one entry, and wrote its one frame unless it
\* returned before the write (encoding error, NoConnection, send error).
C26_NeverRetries ==
    \A c \in Calls :
        /\ sent[c].entries <= 1
        /\ sent[c].frames <= sent[c].entries
        /\ callPc[c] = "idle" <=> sent[c].entries = 0
        /\ callPc[c] \in {"waiting", "elapsed"} => sent[c].frames = 1
        /\ callPc[c] = "done" =>
              sent[c].frames =
                  IF callResult[c] \in {"JsonError", "NoConnection", "WebSocketError"}
                     /\ callTok[c] \notin wire
                    THEN 0 ELSE 1

\* One call returned Timeout after its single frame, another returned
\* NoConnection without writing any.
C26_Witness ==
    \E c, d \in Calls :
        /\ callPc[c] = "done" /\ callResult[c] = "Timeout"
        /\ sent[c] = [entries |-> 1, frames |-> 1]
        /\ callPc[d] = "done" /\ callResult[d] = "NoConnection"
        /\ sent[d] = [entries |-> 1, frames |-> 0]

Holders == {c \in Calls : callPc[c] = "locked"}

\* C27: at most one call holds the write half at any time, a frame is
\* written only by the holder while no other call is inside the guarded
\* block, and every call waiting for the guard leaves the wait once the
\* holders' sends complete.
C27_WriteHalfExclusive ==
    /\ [](/\ Cardinality(Holders) <= 1
          /\ \A c \in Holders : sinkLock = c)
    /\ [][\A c \in Calls :
             sent'[c].frames > sent[c].frames =>
                 /\ sinkLock = c
                 /\ Holders = {c}
                 /\ \A d \in Calls \ {c} : sent'[d] = sent[d]]_vars
    /\ \A c \in Calls : (callPc[c] = "registered") ~> (callPc[c] /= "registered")

\* One call holds the guard after an earlier call wrote its frame, while
\* another call waits for the guard.
C27_Witness ==
    \E c, d \in Calls :
        /\ c /= d
        /\ callPc[c] = "locked" /\ sinkLock = c
        /\ callPc[d] = "registered"

\* C28, as stated: when the read loop classifies a frame, no intake of an
\* earlier reply whose entry is still in the table is outstanding.
C28_Original ==
    [][nreplies' /= nreplies =>
          \A k \in BagToSet(echoTasks) : EchoTarget(k.echo) = NoCall]_vars

\* C28, amended: for a frame classified as a reply the read loop only
\* spawns the intake, leaving the table and the signals as they are, and is
\* ready for the next frame whatever intakes are outstanding; the spawned
\* task, when it runs, removes the entry of its token and fires its signal.
C28_Amended ==
    /\ [][\A text \in Texts : (LoopReply(text) /\ CheckIsEcho(text)) =>
             /\ echoTasks' = echoTasks (+) SetToBag({[echo |-> text[1], data |-> text]})
             /\ UNCHANGED <<pending, sig, consumed, botPc>>]_vars
    /\ [](botPc = "loop" /\ nreplies < MaxReplies =>
             ENABLED LoopReply(<<UnknownTok, "good">>))
    /\ [][\A k \in BagToSet(echoTasks) :
             (EchoTaskRun(k) /\ EchoTarget(k.echo) /= NoCall) =>
                 /\ pending'[k.echo] = NoCall
                 /\ RxAlive(EchoTarget(k.echo)) => sig'[EchoTarget(k.echo)] = k.data]_vars

\* The loop has classified two reply frames and is reading on while both
\* intakes are outstanding, one of them for an entry still in the table.
C28_Witness ==
    /\ botPc = "loop"
    /\ nreplies = 2
    /\ BagCardinality(echoTasks) = 2
    /\ \E k \in BagToSet(echoTasks) : EchoTarget(k.echo) /= NoCall

Fetches(t) == Cardinality({p \in Positions(t) : t.log[p].op = "fetch"})

RECURSIVE TotalFetches(_)
TotalFetches(S) ==
    IF S = {} THEN 0
    ELSE LET t == CHOOSE u \in S : TRUE
         IN CopiesIn(t, tasks) * Fetches(t) + TotalFetches(S \ {t})

\* C29: the Reply extractor issues its nested call only for a message whose
\* reply segment has a numeric id, one call per extraction; the handler's
\* body runs when the call returned Ok, and on any other result the handler
\* returns Skip; for a reply segment whose id is no number, or no reply
\* segment, the handler returns Skip at once and no call is issued.
C29_ReplyExtractor ==
    /\ Cardinality({c \in Calls : caller[c] /= None \/ callPc[c] /= "idle"})
           = TotalFetches(TaskSet)
    /\ \A t \in TaskSet : \A p \in Positions(t) :
          LET e == t.log[p] IN
          /\ e.op = "fetch" =>
                /\ IsMessage(t.ev) /\ ReplySegment(t.ev) = "number"
                /\ t.log[p - 1] = LogEntry("call", e.reg, "-")
                /\ \A q \in Positions(t) :
                      (t.log[q].op = "fetch" /\ t.log[q].reg = e.reg) => q = p
                /\ p = Len(t.log) =>
                      /\ t.phase = "fetch"
                      /\ \E c \in Calls : caller[c] = Some(t)
          /\ e.op = "fetched" =>
                /\ t.log[p - 1] = LogEntry("fetch", e.reg, "-")
                /\ p < Len(t.log)
                /\ t.log[p + 1] =
                       IF e.ctl = "Ok" THEN LogEntry("body", e.reg, "-")
                                       ELSE LogEntry("ret", e.reg, "Skip")
          /\ (e.op = "call" /\ ReplySegment(t.ev) /= "number") =>
                /\ p < Len(t.log)
                /\ t.log[p + 1] = LogEntry("ret", e.reg, "Skip")

\* For one message with a reply segment, the nested call of the first
\* handler's extractor timed out and the handler was skipped, and the call
\* of the second handler's extractor returned Ok and its body ran.
C29_Witness ==
    \E t \in TaskSet :
        /\ t.ev = "reply"
        /\ Len(t.log) >= 8
        /\ t.log[3] = LogEntry("fetched", 1, "Timeout")
        /\ t.log[4] = LogEntry("ret", 1, "Skip")
        /\ t.log[7] = LogEntry("fetched", 2, "Ok")
        /\ t.log[8] = LogEntry("body", 2, "-")

Resolves(m, ev) == m.arg = "none" \/ FromEvent(m.arg, ev)

\* The methods that resolve on ev and return Block.
Blockers(ms, ev) == {i \in 1..Len(ms) : Resolves(ms[i], ev) /\ ms[i].ctl = "Block"}

\* C30, as stated: serve runs, in declaration order, the body of every
\* method whose extractors resolve, up to and including the first that
\* returns Block, skipping the methods whose extractors fail; it returns
\* Block when a method returned Block and Continue otherwise.
C30_ServeLikePipeline ==
    extracted.kind = "serve" =>
        LET ms == extracted.args
            ev == extracted.ev
            out == extracted.out
            last == IF Blockers(ms, ev) = {} THEN Len(ms) ELSE Min(Blockers(ms, ev))
        IN /\ {out.ran[j] : j \in 1..Len(out.ran)}
                  = {i \in 1..last : Resolves(ms[i], ev)}
           /\ \A j \in 1..Len(out.ran) - 1 : out.ran[j] < out.ran[j + 1]
           /\ out.ctl = IF Blockers(ms, ev) = {} THEN "Continue" ELSE "Block"

\* C31, as stated: in every state each pending entry belongs to a call
\* that has not yet returned: once a call has returned, whatever its
\* outcome, the table holds no entry for its token.
C31_NoEntryOutlivesItsCall ==
    \A tok \in Tokens :
        pending[tok] /= NoCall => callPc[pending[tok]] /= "done"

\* C32: every call that was started returns, and returns one outcome that
\* never changes afterwards; a call that wrote its frame and got no reply
\* ends with Timeout or NoResponse, whether or not the read loop still runs.
C32_EveryCallReturns ==
    /\ \A c \in Calls : (callPc[c] /= "idle") ~> (callPc[c] = "done")
    /\ [](\A c \in Calls :
             /\ callPc[c] = "done" <=> callResult[c] /= "none"
             /\ (callPc[c] = "done" /\ sent[c].frames = 1 /\ sig[c] = NoText) =>
                    callResult[c] \in {"Timeout", "NoResponse"})
    /\ [][\A c \in Calls :
             callPc[c] = "done" =>
                 callPc'[c] = "done" /\ callResult'[c] = callResult[c]]_vars

\* The read loop has stopped without taking in any reply, and a call that
\* wrote its frame has returned Timeout.
C32_Witness ==
    /\ botPc \notin {"building", "connect", "set_sink", "loop"}
    /\ nreplies = 0
    /\ \E c \in Calls :
          /\ callPc[c] = "done" /\ callResult[c] = "Timeout"
          /\ sent[c].frames = 1

\* C33, as stated: a text frame that is no reply and does not decode as an
\* event makes the read loop return an encoding error, without a dispatch
\* task for it, and once it has, the loop takes in no further frame.
C33_BadTextReturnsEncodingError ==
    /\ [][(LoopBadJson \/ LoopBadEvent) =>
             /\ botPc' = "returned" /\ runResult' = "JsonError"
             /\ tasks' = tasks /\ echoTasks' = echoTasks]_vars
    /\ [][botPc /= "loop" =>
             /\ nreplies' = nreplies
             /\ BagCardinality(tasks') = BagCardinality(tasks)
             /\ BagCardinality(echoTasks') <= BagCardinality(echoTasks)]_vars

CallsOf(t, k) == {p \in Positions(t) : t.log[p].op = "call" /\ t.log[p].reg = k}

\* C34: taking in an event frame that decodes starts exactly one dispatch
\* task, nothing else starts or ends a dispatch task, so the tasks started
\* are as many as the event frames taken in; and within a task each
\* registration is invoked at most once.
C34_OneTaskPerEvent ==
    /\ [][\A ev \in AllEvents : LoopEvent(ev) =>
             /\ BagCardinality(tasks') = BagCardinality(tasks) + 1
             /\ \E t \in BagToSet(tasks') :
                   /\ t.ev = ev /\ t.log = <<>>
                   /\ CopiesIn(t, tasks') = CopiesIn(t, tasks) + 1]_vars
    /\ [][BagCardinality(tasks') /= BagCardinality(tasks) =>
             \E ev \in AllEvents : LoopEvent(ev)]_vars
    /\ [](\A t \in TaskSet : \A k \in 1..Len(handlers) :
             Cardinality(CallsOf(t, k)) <= 1)

\* Two event frames were taken in and have their two tasks; one of them is
\* through the pipeline and has invoked both registrations, each once.
C34_Witness ==
    /\ Len(handlers) = 2
    /\ BagCardinality(tasks) = 2
    /\ \E t \in TaskSet :
          /\ Finished(t)
          /\ \A k \in 1..2 : Cardinality(CallsOf(t, k)) = 1

\* C36: taking in a frame that is no text frame leaves the pending table,
\* the reply intakes and the dispatch tasks as they are, and the read loop
\* stays at the stream, where it can take in the next frame.
C36_NonTextIgnored ==
    /\ [][LoopNonText =>
             /\ pending' = pending /\ sig' = sig
             /\ tasks' = tasks /\ echoTasks' = echoTasks
             /\ botPc' = "loop" /\ runResult' = runResult]_vars
    /\ [](botPc = "loop" => ENABLED LoopNonText)

\* The read loop is at the stream with an entry in the pending table and a
\* handler body running: a frame that is no text, taken in here, leaves
\* this very state.
C36_Witness ==
    /\ botPc = "loop"
    /\ ENABLED LoopNonText
    /\ \E tok \in Tokens : pending[tok] /= NoCall
    /\ \E t \in TaskSet : t.phase = "body"

\* C35: a handler called for a message with a numeric reply segment has its
\* Reply extractor issue the nested call although the GroupId extractor
\* before it has failed; when the call has returned, whatever its result,
\* the handler returns Skip because of the failed extractor.
C35_NoShortCircuit ==
    \A t \in TaskSet : \A p \in Positions(t) :
        LET e == t.log[p] IN
        /\ (e.op = "call" /\ ReplySegment(t.ev) = "number") =>
              /\ p < Len(t.log)
              /\ t.log[p + 1] = LogEntry("fetch", e.reg, "-")
        /\ (e.op = "fetched" /\ ExtractGroupId(t.ev) = None) =>
              /\ p < Len(t.log)
              /\ t.log[p + 1] = LogEntry("ret", e.reg, "Skip")
        /\ (e.op = "fetched" /\ ExtractGroupId(t.ev) /= None /\ e.ctl = "Ok") =>
              /\ p < Len(t.log)
              /\ t.log[p + 1] = LogEntry("body", e.reg, "-")

\* For a private message with a reply segment, GroupId yields None, the
\* nested call of Reply was still issued and returned Ok, and the handler
\* was skipped.
C35_Witness ==
    \E t \in TaskSet :
        /\ t.ev = "reply"
        /\ ExtractGroupId(t.ev) = None
        /\ Len(t.log) >= 4
        /\ t.log[2] = LogEntry("fetch", 1, "-")
        /\ t.log[3] = LogEntry("fetched", 1, "Ok")
        /\ t.log[4] = LogEntry("ret", 1, "Skip")

\* C37, as stated: after a first successful get_database(k), every later
\* get_database(k) returns that database without building a new one, and
\* the cache holds at most one entry per key asked for.
C37_CachesPerKey ==
    /\ \A i, j \in 1..Len(turso.gets) :
          (i < j /\ turso.gets[i].key = turso.gets[j].key /\ turso.gets[i].db /= NoDb) =>
              /\ ~turso.gets[j].built
              /\ turso.gets[j].db = turso.gets[i].db
    /\ Cardinality({n \in Names : turso.databases[n] /= NoDb})
           <= Cardinality({turso.gets[i].key : i \in 1..Len(turso.gets)})
====
